---- MODULE Spec2Model ----
(***************************************************************************)
(* Model of spectrograph.py: the K8056 relay-card driver (frame encoding,  *)
(* relay validation, repeat/sleep transmission loop) and the Spectrograph  *)
(* controller (observing modes, the set_obs_type and prepare_observation   *)
(* handlers).                                                              *)
(*                                                                         *)
(* Two specifications share the driver:                                    *)
(*   SpecDriver  a client calls the K8056 methods directly, with arbitrary *)
(*               arguments, on a driver built with any repeat / wait;      *)
(*   Spec        the Spectrograph controller, built live (K8056(device),   *)
(*               so repeat = 0, wait = 0, a relay card on the line) or as  *)
(*               a simulation (device is None), serving gateway requests.  *)
(***************************************************************************)
EXTENDS Integers, Sequences, FiniteSets, TLC

VARIABLES
    device,             \* Spectrograph.device / the K8056 instance: None or [repeat, wait]
    card,               \* the relay card on the serial line: NoCard or [relays, addr]
    status_dictionary,  \* Spectrograph.status_dictionary
    hpc,                \* position of the event handler
    req,                \* the request being handled: NoReq or [kind, mode, obs]
    mode_ports,         \* set_obs_type's local mode_ports (ordered items of the dict)
    port,               \* index of the loop over mode_ports.items()
    dpc,                \* position of the driver call
    call,               \* the driver call in progress: NoCall or the _process arguments
    i,                  \* _process's loop counter
    log,                \* what the current request / call did, in order
    applied,            \* history: the mode of the last completed application, "" before it
    failures,           \* history: a handler of this listener has ended by an exception
    other               \* the handler thread that is not running: its hpc .. log

vars == <<device, card, status_dictionary, hpc, req, mode_ports, port, dpc, call, i, log,
          applied, failures, other>>

-----------------------------------------------------------------------------
(* Bounds and input sets *)

MaxRepeat == 2
MaxWait == 1
MaxRelayArg == 11

RelayArgs == (0 - 2) .. MaxRelayArg
AddressArgs == {0 - 257, 0 - 1, 0, 1, 2, 255, 256, 300}
ByteArgs == {0 - 256, 0 - 1, 0, 1, 5, 129, 255, 256, 511}
RequestModes == {"object", "dark", "flat", "thar", "unknown", "Dark", ""}
ObsInstructions == {"obs-A", "obs-B"}

None == [open |-> FALSE, repeat |-> 0, wait |-> 0]
NoCard == [present |-> FALSE, relays |-> {}, addr |-> 0]
NoReq == [kind |-> "none", mode |-> "", obs |-> ""]
NoCall == [raised |-> FALSE, instruction |-> 0, byte |-> 0, address |-> 0, cksum |-> 0]

\* A handler thread with no event to handle.
IdleThread ==
    [hpc |-> "idle", req |-> NoReq, mode_ports |-> <<>>, port |-> 0,
     dpc |-> "idle", call |-> NoCall, i |-> 0, log |-> <<>>]

-----------------------------------------------------------------------------
(* Module-level constants of spectrograph.py *)

PORTS == ("Mirror" :> 1) @@ ("LED" :> 2) @@ ("ThAr" :> 3) @@ ("Tung" :> 4)

OFF_STATUS == [value |-> "Off", color |-> "warning"]
ON_STATUS == [value |-> "On", color |-> "success"]

\* Mutant of OBSERVING_MODES: every mode's dict lists ThAr before LED.
OBSERVING_MODES_thar_first ==
    ("object" :> << <<"Mirror", OFF_STATUS>>, <<"ThAr", OFF_STATUS>>,
                    <<"LED", OFF_STATUS>>, <<"Tung", OFF_STATUS>> >>) @@
    ("dark"   :> << <<"Mirror", ON_STATUS>>,  <<"ThAr", OFF_STATUS>>,
                    <<"LED", OFF_STATUS>>, <<"Tung", OFF_STATUS>> >>) @@
    ("flat"   :> << <<"Mirror", ON_STATUS>>,  <<"ThAr", OFF_STATUS>>,
                    <<"LED", ON_STATUS>>, <<"Tung", OFF_STATUS>> >>) @@
    ("thar"   :> << <<"Mirror", ON_STATUS>>,  <<"ThAr", ON_STATUS>>,
                    <<"LED", OFF_STATUS>>,  <<"Tung", OFF_STATUS>> >>)

\* Mutant of OBSERVING_MODES: flat lights the tungsten lamp as well.
OBSERVING_MODES_flat_tung ==
    ("object" :> << <<"Mirror", OFF_STATUS>>, <<"LED", OFF_STATUS>>,
                    <<"ThAr", OFF_STATUS>>, <<"Tung", OFF_STATUS>> >>) @@
    ("dark"   :> << <<"Mirror", ON_STATUS>>,  <<"LED", OFF_STATUS>>,
                    <<"ThAr", OFF_STATUS>>, <<"Tung", OFF_STATUS>> >>) @@
    ("flat"   :> << <<"Mirror", ON_STATUS>>,  <<"LED", ON_STATUS>>,
                    <<"ThAr", OFF_STATUS>>, <<"Tung", ON_STATUS>> >>) @@
    ("thar"   :> << <<"Mirror", ON_STATUS>>,  <<"LED", OFF_STATUS>>,
                    <<"ThAr", ON_STATUS>>,  <<"Tung", OFF_STATUS>> >>)

\* Each mode's dict as its items in insertion order (the order .items() yields).
OBSERVING_MODES ==
    ("object" :> << <<"Mirror", OFF_STATUS>>, <<"LED", OFF_STATUS>>,
                    <<"ThAr", OFF_STATUS>>, <<"Tung", OFF_STATUS>> >>) @@
    ("dark"   :> << <<"Mirror", ON_STATUS>>,  <<"LED", OFF_STATUS>>,
                    <<"ThAr", OFF_STATUS>>, <<"Tung", OFF_STATUS>> >>) @@
    ("flat"   :> << <<"Mirror", ON_STATUS>>,  <<"LED", ON_STATUS>>,
                    <<"ThAr", OFF_STATUS>>, <<"Tung", OFF_STATUS>> >>) @@
    ("thar"   :> << <<"Mirror", ON_STATUS>>,  <<"LED", OFF_STATUS>>,
                    <<"ThAr", ON_STATUS>>,  <<"Tung", OFF_STATUS>> >>)

\* self.id, assigned by the Instrument base class.
id == "instrument-id"

-----------------------------------------------------------------------------
(* Python integer arithmetic *)

\* Bit n of the two's-complement representation of x (x of any sign).
Bit(x, n) == (x \div (2 ^ n)) % 2

RECURSIVE AndBits(_, _, _)
AndBits(x, y, n) ==
    IF n < 0 THEN 0
    ELSE Bit(x, n) * Bit(y, n) * (2 ^ n) + AndBits(x, y, n - 1)

\* x & 255: 255 has bits 0..7 set and no other.
And255(x) == AndBits(x, 255, 7)

\* bytearray(values) raises ValueError unless every value is in range(256).
IsByte(b) == b \in 0 .. 255

-----------------------------------------------------------------------------
(* class K8056 *)

\* K8056.__init__: the attributes repeat and wait of an open driver.
K8056(repeat, wait) == [open |-> TRUE, repeat |-> repeat, wait |-> wait]

\* raise Exception("invalid relay number")
InvalidRelay == [raised |-> TRUE, instruction |-> 0, byte |-> 0, address |-> 0, cksum |-> 0]

\* Mutant of _process: the checksum reduced % 255 for & 255.
_process_mod255(instruction, byte, address) ==
    [raised |-> FALSE, instruction |-> instruction, byte |-> byte, address |-> address,
     cksum |-> (243 - instruction - byte - address) % 255]

\* _process up to its loop: the arguments and the checksum the loop transmits.
_process(instruction, byte, address) ==
    [raised |-> FALSE, instruction |-> instruction, byte |-> byte, address |-> address,
     cksum |-> And255(243 - instruction - byte - address)]

\* bytearray([13, address, instruction, byte, cksum])
Frame(c) == <<13, c.address, c.instruction, c.byte, c.cksum>>

\* Mutant of set: the data byte written relay + 47.
set_relay47(relay, address) ==
    IF ~(0 < relay /\ relay < 10) THEN InvalidRelay
    ELSE _process(83, relay + 47, And255(address))

set(relay, address) ==
    IF ~(0 < relay /\ relay < 10) THEN InvalidRelay
    ELSE _process(83, relay + 48, And255(address))

\* Mutant of clear: the range test written 0 <= relay < 10.
clear_from0(relay, address) ==
    IF ~(0 <= relay /\ relay < 10) THEN InvalidRelay
    ELSE _process(67, relay + 48, And255(address))

clear(relay, address) ==
    IF ~(0 < relay /\ relay < 10) THEN InvalidRelay
    ELSE _process(67, relay + 48, And255(address))

toggle(relay, address) ==
    IF ~(0 < relay /\ relay < 10) THEN InvalidRelay
    ELSE _process(84, relay + 48, And255(address))

set_address(new, address) == _process(65, And255(new), And255(address))

send_byte(num, address) == _process(66, And255(num), And255(address))

emergency_stop == _process(69, 1, 1)

\* Mutant of force_address: address 0 for address 1.
force_address_to0 == _process(70, 1, 0)

force_address == _process(70, 1, 1)

get_address == _process(68, 1, 1)

-----------------------------------------------------------------------------
(* The relay card at the other end of the serial line *)

Relays == 1 .. 8

\* The relays a data byte relay + 48 names: one of 1..8, or all of them for 9.
Named(data) == IF data - 48 = 9 THEN Relays ELSE {data - 48} \cap Relays

\* The card after it receives one frame.
CardReceive(c, frame) ==
    LET address == frame[2]
        instruction == frame[3]
        data == frame[4]
    IN  IF ~c.present THEN c
        ELSE IF instruction = 69 THEN [c EXCEPT !.relays = {}]
        ELSE IF instruction = 70 THEN [c EXCEPT !.addr = 1]
        ELSE IF address # c.addr THEN c
        ELSE IF instruction = 83 THEN [c EXCEPT !.relays = @ \cup Named(data)]
        ELSE IF instruction = 67 THEN [c EXCEPT !.relays = @ \ Named(data)]
        ELSE IF instruction = 84
             THEN [c EXCEPT !.relays = (@ \ Named(data)) \cup (Named(data) \ @)]
        ELSE IF instruction = 65 THEN [c EXCEPT !.addr = data]
        ELSE IF instruction = 66
             THEN [c EXCEPT !.relays = {r \in Relays : Bit(data, r - 1) = 1}]
        ELSE c

-----------------------------------------------------------------------------
(* Execution of one driver call *)

\* A method of the open driver is called and runs up to _process's loop
\* (before is the log up to the call).
Invoke(before, name, arg, address, outcome) ==
    /\ device.open
    /\ dpc = "idle"
    /\ log' = Append(before, <<"cmd", name, arg, address>>)
    /\ i' = 0
    /\ IF outcome.raised
       THEN dpc' = "raised" /\ call' = NoCall
       ELSE /\ call' = outcome
            /\ dpc' = IF 0 < device.repeat + 1 THEN "write" ELSE "returned"

\* self._serial.write(bytearray([13, address, instruction, byte, cksum]))
SerialWrite ==
    /\ dpc = "write"
    /\ IF \A k \in 1 .. 5 : IsByte(Frame(call)[k])
       THEN /\ log' = Append(log, <<"write", Frame(call)>>)
            /\ card' = CardReceive(card, Frame(call))
            /\ dpc' = "sleep"
       ELSE /\ dpc' = "raised"
            /\ UNCHANGED <<log, card>>
    /\ UNCHANGED <<device, status_dictionary, hpc, req, mode_ports, port, call, i, applied, failures, other>>

\* Mutant of Sleep: the loop written range(self.repeat).
Sleep_range_repeat ==
    /\ dpc = "sleep"
    /\ log' = Append(log, <<"sleep", device.wait>>)
    /\ i' = i + 1
    /\ dpc' = IF i + 1 < device.repeat THEN "write" ELSE "returned"
    /\ UNCHANGED <<device, card, status_dictionary, hpc, req, mode_ports, port, call, applied, failures, other>>

\* Mutant of Sleep: no sleep after the last write.
Sleep_between_only ==
    /\ dpc = "sleep"
    /\ log' = IF i + 1 < device.repeat + 1 THEN Append(log, <<"sleep", device.wait>>) ELSE log
    /\ i' = i + 1
    /\ dpc' = IF i + 1 < device.repeat + 1 THEN "write" ELSE "returned"
    /\ UNCHANGED <<device, card, status_dictionary, hpc, req, mode_ports, port, call, applied, failures, other>>

\* sleep(self.wait), then the loop's next iteration or its end.
Sleep ==
    /\ dpc = "sleep"
    /\ log' = Append(log, <<"sleep", device.wait>>)
    /\ i' = i + 1
    /\ dpc' = IF i + 1 < device.repeat + 1 THEN "write" ELSE "returned"
    /\ UNCHANGED <<device, card, status_dictionary, hpc, req, mode_ports, port, call, applied, failures, other>>

-----------------------------------------------------------------------------
(* A client of the driver: direct calls of the K8056 methods *)

CallSet ==
    \E relay \in RelayArgs, address \in AddressArgs :
        /\ hpc = "idle"
        /\ Invoke(log, "set", relay, address, set(relay, address))
        /\ UNCHANGED <<device, card, status_dictionary, hpc, req, mode_ports, port, applied, failures, other>>

CallClear ==
    \E relay \in RelayArgs, address \in AddressArgs :
        /\ hpc = "idle"
        /\ Invoke(log, "clear", relay, address, clear(relay, address))
        /\ UNCHANGED <<device, card, status_dictionary, hpc, req, mode_ports, port, applied, failures, other>>

CallToggle ==
    \E relay \in RelayArgs, address \in AddressArgs :
        /\ hpc = "idle"
        /\ Invoke(log, "toggle", relay, address, toggle(relay, address))
        /\ UNCHANGED <<device, card, status_dictionary, hpc, req, mode_ports, port, applied, failures, other>>

CallSetAddress ==
    \E new \in ByteArgs, address \in AddressArgs :
        /\ hpc = "idle"
        /\ Invoke(log, "set_address", new, address, set_address(new, address))
        /\ UNCHANGED <<device, card, status_dictionary, hpc, req, mode_ports, port, applied, failures, other>>

CallSendByte ==
    \E num \in ByteArgs, address \in AddressArgs :
        /\ hpc = "idle"
        /\ Invoke(log, "send_byte", num, address, send_byte(num, address))
        /\ UNCHANGED <<device, card, status_dictionary, hpc, req, mode_ports, port, applied, failures, other>>

CallEmergencyStop ==
    /\ hpc = "idle"
    /\ Invoke(log, "emergency_stop", 1, 1, emergency_stop)
    /\ UNCHANGED <<device, card, status_dictionary, hpc, req, mode_ports, port, applied, failures, other>>

CallForceAddress ==
    /\ hpc = "idle"
    /\ Invoke(log, "force_address", 1, 1, force_address)
    /\ UNCHANGED <<device, card, status_dictionary, hpc, req, mode_ports, port, applied, failures, other>>

CallGetAddress ==
    /\ hpc = "idle"
    /\ Invoke(log, "get_address", 1, 1, get_address)
    /\ UNCHANGED <<device, card, status_dictionary, hpc, req, mode_ports, port, applied, failures, other>>

\* The call returns to the client, or its exception reaches the client.
ClientReturn ==
    /\ hpc = "idle"
    /\ dpc \in {"returned", "raised"}
    /\ dpc' = "idle"
    /\ call' = NoCall
    /\ i' = 0
    /\ log' = <<>>
    /\ UNCHANGED <<device, card, status_dictionary, hpc, req, mode_ports, port, applied, failures, other>>

InitDriver ==
    /\ device \in {K8056(repeat, wait) : repeat \in 0 .. MaxRepeat, wait \in 0 .. MaxWait}
    /\ card = NoCard
    /\ status_dictionary = OBSERVING_MODES["object"]
    /\ hpc = "idle"
    /\ req = NoReq
    /\ mode_ports = <<>>
    /\ port = 0
    /\ dpc = "idle"
    /\ call = NoCall
    /\ i = 0
    /\ log = <<>>
    /\ applied = ""
    /\ failures = FALSE
    /\ other = IdleThread

NextDriver ==
    \/ CallSet
    \/ CallClear
    \/ CallToggle
    \/ CallSetAddress
    \/ CallSendByte
    \/ CallEmergencyStop
    \/ CallForceAddress
    \/ CallGetAddress
    \/ SerialWrite
    \/ Sleep
    \/ ClientReturn

SpecDriver == InitDriver /\ [][NextDriver]_vars

\* The thread that runs a call goes on running it: write and sleep both return.
FairSpecDriver == SpecDriver /\ WF_vars(SerialWrite) /\ WF_vars(Sleep)

\* The driver on a bus with a card, of any relay state, at address 1: the commands
\* that take no relay, so that earlier calls change the card's address and relays.
InitAddress ==
    /\ device \in {K8056(repeat, wait) : repeat \in 0 .. MaxRepeat, wait \in 0 .. MaxWait}
    /\ card \in {[present |-> TRUE, relays |-> on, addr |-> 1] : on \in {{}, Relays}}
    /\ status_dictionary = OBSERVING_MODES["object"]
    /\ hpc = "idle"
    /\ req = NoReq
    /\ mode_ports = <<>>
    /\ port = 0
    /\ dpc = "idle"
    /\ call = NoCall
    /\ i = 0
    /\ log = <<>>
    /\ applied = ""
    /\ failures = FALSE
    /\ other = IdleThread

NextAddress ==
    \/ CallSetAddress
    \/ CallSendByte
    \/ CallEmergencyStop
    \/ CallForceAddress
    \/ CallGetAddress
    \/ SerialWrite
    \/ Sleep
    \/ ClientReturn

SpecAddress == InitAddress /\ [][NextAddress]_vars

-----------------------------------------------------------------------------
(* class Spectrograph *)

\* Spectrograph.__init__: self.device.
Spectrograph(simulator) == IF simulator THEN None ELSE K8056(0, 0)

\* The loop of set_obs_type moves to its next item, or ends.
NextPort ==
    IF port < Len(mode_ports)
    THEN port' = port + 1 /\ hpc' = "ports"
    ELSE port' = port /\ hpc' = "emit_status"

\* self.device.set(port), address left to its default 1, unless device is None.
turn_on(p) ==
    IF device # None
    THEN /\ Invoke(Append(log, <<"turn_on", p>>), "set", p, 1, set(p, 1))
         /\ UNCHANGED <<hpc, port>>
    ELSE /\ log' = Append(log, <<"turn_on", p>>)
         /\ NextPort
         /\ UNCHANGED <<dpc, call, i>>

\* Mutant of turn_off: no test of device, so device.clear on None raises
\* AttributeError.
turn_off_unguarded(p) ==
    IF device # None
    THEN /\ Invoke(Append(log, <<"turn_off", p>>), "clear", p, 1, clear(p, 1))
         /\ UNCHANGED <<hpc, port>>
    ELSE /\ log' = Append(log, <<"turn_off", p>>)
         /\ hpc' = "failed"
         /\ UNCHANGED <<port, dpc, call, i>>

\* self.device.clear(port), address left to its default 1, unless device is None.
turn_off(p) ==
    IF device # None
    THEN /\ Invoke(Append(log, <<"turn_off", p>>), "clear", p, 1, clear(p, 1))
         /\ UNCHANGED <<hpc, port>>
    ELSE /\ log' = Append(log, <<"turn_off", p>>)
         /\ NextPort
         /\ UNCHANGED <<dpc, call, i>>

\* Mutant of Lookup: self.OBSERVING_MODES.get(mode, {}), no KeyError.
Lookup_get_default(mode) ==
    IF mode \in DOMAIN OBSERVING_MODES
    THEN mode_ports' = OBSERVING_MODES[mode] /\ port' = 1 /\ hpc' = "ports"
    ELSE mode_ports' = <<>> /\ port' = 0 /\ hpc' = "emit_status"

\* set_obs_type up to its loop: mode_ports = self.OBSERVING_MODES[mode], a
\* KeyError for a mode that is no key of the dict.
Lookup(mode) ==
    IF mode \in DOMAIN OBSERVING_MODES
    THEN mode_ports' = OBSERVING_MODES[mode] /\ port' = 1 /\ hpc' = "ports"
    ELSE mode_ports' = <<>> /\ port' = 0 /\ hpc' = "failed"

\* The gateway delivers "set_obs_type"; the handler runs up to its loop.
set_obs_type ==
    \E mode \in RequestModes :
        /\ hpc = "idle"
        /\ dpc = "idle"
        /\ req' = [kind |-> "set_obs_type", mode |-> mode, obs |-> ""]
        /\ log' = <<>>
        /\ Lookup(mode)
        /\ UNCHANGED <<device, card, status_dictionary, dpc, call, i, applied, failures, other>>

\* The gateway delivers "prepare_observation"; the handler calls set_obs_type(mode).
prepare_observation ==
    \E mode \in RequestModes, obs_instructions \in ObsInstructions :
        /\ hpc = "idle"
        /\ dpc = "idle"
        /\ req' = [kind |-> "prepare_observation", mode |-> mode, obs |-> obs_instructions]
        /\ log' = <<>>
        /\ Lookup(mode)
        /\ UNCHANGED <<device, card, status_dictionary, dpc, call, i, applied, failures, other>>

\* Mutant of PortStep: the status compared with "on".
PortStep_lowercase ==
    /\ hpc = "ports"
    /\ dpc = "idle"
    /\ LET port_name == mode_ports[port][1]
           settings == mode_ports[port][2]
           status_val == settings.value
           port_num == PORTS[port_name]
       IN  IF status_val = "on" THEN turn_on(port_num) ELSE turn_off(port_num)
    /\ UNCHANGED <<device, card, status_dictionary, req, mode_ports, applied, failures, other>>

\* Mutant of PortStep: a port whose published status already equals the target
\* is skipped.
PortStep_diffed ==
    /\ hpc = "ports"
    /\ dpc = "idle"
    /\ LET port_name == mode_ports[port][1]
           settings == mode_ports[port][2]
           status_val == settings.value
           port_num == PORTS[port_name]
       IN  IF status_dictionary[port] = mode_ports[port]
           THEN NextPort /\ UNCHANGED <<log, dpc, call, i>>
           ELSE IF status_val = "On" THEN turn_on(port_num) ELSE turn_off(port_num)
    /\ UNCHANGED <<device, card, status_dictionary, req, mode_ports, applied, failures, other>>

\* One iteration of the loop: the port's command is issued.
PortStep ==
    /\ hpc = "ports"
    /\ dpc = "idle"
    /\ LET port_name == mode_ports[port][1]
           settings == mode_ports[port][2]
           status_val == settings.value
           port_num == PORTS[port_name]
       IN  IF status_val = "On" THEN turn_on(port_num) ELSE turn_off(port_num)
    /\ UNCHANGED <<device, card, status_dictionary, req, mode_ports, applied, failures, other>>

\* Mutant of PortReturn: self.status_dictionary[port_name] = settings after each
\* port's command.
PortReturn_tracks ==
    /\ hpc = "ports"
    /\ dpc \in {"returned", "raised"}
    /\ IF dpc = "raised" THEN hpc' = "failed" /\ port' = port ELSE NextPort
    /\ dpc' = "idle"
    /\ call' = NoCall
    /\ i' = 0
    /\ status_dictionary' = IF dpc = "raised" THEN status_dictionary
                            ELSE [status_dictionary EXCEPT ![port] = mode_ports[port]]
    /\ UNCHANGED <<device, card, req, mode_ports, log, applied, failures, other>>

\* The driver call returns to the loop, or its exception leaves the handler.
PortReturn ==
    /\ hpc = "ports"
    /\ dpc \in {"returned", "raised"}
    /\ IF dpc = "raised" THEN hpc' = "failed" /\ port' = port ELSE NextPort
    /\ dpc' = "idle"
    /\ call' = NoCall
    /\ i' = 0
    /\ UNCHANGED <<device, card, status_dictionary, req, mode_ports, log, applied, failures, other>>

\* Mutant of EmitUpdateStatus: the payload is self.status_dictionary.
EmitUpdateStatus_stale ==
    /\ hpc = "emit_status"
    /\ log' = Append(log, <<"emit", "update_status", <<id, status_dictionary>>>>)
    /\ hpc' = IF req.kind = "prepare_observation" THEN "emit_changed" ELSE "done"
    /\ UNCHANGED <<device, card, status_dictionary, req, mode_ports, port, dpc, call, i, applied, failures, other>>

\* Instrument.sio.emit("update_status", data=(self.id, mode_ports))
EmitUpdateStatus ==
    /\ hpc = "emit_status"
    /\ log' = Append(log, <<"emit", "update_status", <<id, mode_ports>>>>)
    /\ hpc' = IF req.kind = "prepare_observation" THEN "emit_changed" ELSE "done"
    /\ UNCHANGED <<device, card, status_dictionary, req, mode_ports, port, dpc, call, i, applied, failures, other>>

\* Mutant of EmitChangedPorts: the payload is mode.
EmitChangedPorts_mode ==
    /\ hpc = "emit_changed"
    /\ log' = Append(log, <<"emit", "spectrograph_changed_ports", req.mode>>)
    /\ hpc' = "done"
    /\ UNCHANGED <<device, card, status_dictionary, req, mode_ports, port, dpc, call, i, applied, failures, other>>

\* Instrument.sio.emit("spectrograph_changed_ports", obs_instructions)
EmitChangedPorts ==
    /\ hpc = "emit_changed"
    /\ log' = Append(log, <<"emit", "spectrograph_changed_ports", req.obs>>)
    /\ hpc' = "done"
    /\ UNCHANGED <<device, card, status_dictionary, req, mode_ports, port, dpc, call, i, applied, failures, other>>

\* Mutant of HandlerReturn: an exception of a handler ends the listener.
HandlerReturn_listener_dies ==
    /\ hpc = "done"
    /\ hpc' = "idle"
    /\ req' = NoReq
    /\ mode_ports' = <<>>
    /\ port' = 0
    /\ log' = <<>>
    /\ applied' = req.mode
    /\ UNCHANGED <<device, card, status_dictionary, dpc, call, i, failures, other>>

\* The handler returns, or its exception ends it; the gateway goes on listening.
HandlerReturn ==
    /\ hpc \in {"done", "failed"}
    /\ hpc' = "idle"
    /\ req' = NoReq
    /\ mode_ports' = <<>>
    /\ port' = 0
    /\ log' = <<>>
    /\ applied' = IF hpc = "done" THEN req.mode ELSE applied
    /\ failures' = (failures \/ hpc = "failed")
    /\ UNCHANGED <<device, card, status_dictionary, dpc, call, i, other>>

Init ==
    /\ \E simulator \in BOOLEAN :
          /\ device = Spectrograph(simulator)
          /\ card \in IF simulator THEN {NoCard}
                      ELSE {[present |-> TRUE, relays |-> on, addr |-> 1] : on \in SUBSET Relays}
    /\ status_dictionary = OBSERVING_MODES["object"]
    /\ hpc = "idle"
    /\ req = NoReq
    /\ mode_ports = <<>>
    /\ port = 0
    /\ dpc = "idle"
    /\ call = NoCall
    /\ i = 0
    /\ log = <<>>
    /\ applied = ""
    /\ failures = FALSE
    /\ other = IdleThread

Next ==
    \/ set_obs_type
    \/ prepare_observation
    \/ PortStep
    \/ SerialWrite
    \/ Sleep
    \/ PortReturn
    \/ EmitUpdateStatus
    \/ EmitChangedPorts
    \/ HandlerReturn

Spec == Init /\ [][Next]_vars

\* The handler thread runs on, and the gateway takes the handler's return or
\* exception; when the next event arrives is left open.
FairSpec ==
    /\ Spec
    /\ WF_vars(PortStep)
    /\ WF_vars(SerialWrite)
    /\ WF_vars(Sleep)
    /\ WF_vars(PortReturn)
    /\ WF_vars(EmitUpdateStatus)
    /\ WF_vars(EmitChangedPorts)
    /\ WF_vars(HandlerReturn)

-----------------------------------------------------------------------------
(* A transport that can fail *)

\* self._serial.write raises (the device is gone): the exception leaves _process.
WriteFails ==
    /\ dpc = "write"
    /\ dpc' = "raised"
    /\ log' = Append(log, <<"fault", "write">>)
    /\ UNCHANGED <<device, card, status_dictionary, hpc, req, mode_ports, port, call, i, applied, failures, other>>

NextFault ==
    \/ Next
    \/ WriteFails

SpecFault == Init /\ [][NextFault]_vars

-----------------------------------------------------------------------------
(* Two events delivered concurrently: two handler threads, one driver *)

\* The running handler thread blocks in sleep(self.wait) after its write and the
\* other thread runs: the two threads exchange places. Neither _process nor the
\* handlers take a lock.
Switch ==
    /\ dpc = "sleep"
    /\ other' = [hpc |-> hpc, req |-> req, mode_ports |-> mode_ports, port |-> port,
                 dpc |-> dpc, call |-> call, i |-> i, log |-> log]
    /\ hpc' = other.hpc
    /\ req' = other.req
    /\ mode_ports' = other.mode_ports
    /\ port' = other.port
    /\ dpc' = other.dpc
    /\ call' = other.call
    /\ i' = other.i
    /\ log' = other.log
    /\ UNCHANGED <<device, card, status_dictionary, applied, failures>>

\* A live Spectrograph, its card with every relay off.
InitConcurrent ==
    /\ device = Spectrograph(FALSE)
    /\ card = [present |-> TRUE, relays |-> {}, addr |-> 1]
    /\ status_dictionary = OBSERVING_MODES["object"]
    /\ hpc = "idle"
    /\ req = NoReq
    /\ mode_ports = <<>>
    /\ port = 0
    /\ dpc = "idle"
    /\ call = NoCall
    /\ i = 0
    /\ log = <<>>
    /\ applied = ""
    /\ failures = FALSE
    /\ other = IdleThread

NextConcurrent ==
    \/ set_obs_type
    \/ prepare_observation
    \/ PortStep
    \/ SerialWrite
    \/ Sleep
    \/ PortReturn
    \/ EmitUpdateStatus
    \/ EmitChangedPorts
    \/ HandlerReturn
    \/ Switch

SpecConcurrent == InitConcurrent /\ [][NextConcurrent]_vars

\* The sequential controller on a live driver whose card has all relays released.
SpecOff == InitConcurrent /\ [][Next]_vars

-----------------------------------------------------------------------------
(* Reading the log *)

\* The events of one kind, in the order they happened.
Events(kind) == SelectSeq(log, LAMBDA e : e[1] = kind)

\* The emits of one event name, in order.
Emits(name) == SelectSeq(Events("emit"), LAMBDA e : e[2] = name)

\* The positions of the log that hold an event of one kind.
At(kind) == {k \in 1 .. Len(log) : log[k][1] = kind}

\* The driver command a direct client call started (the first event of its log).
ClientCmd == log[1]

-----------------------------------------------------------------------------
(* Claims about the driver, checked under SpecDriver *)

\* C1: every frame a driver command writes is 5 bytes [13, address mod 256,
\* instruction, data, checksum], each byte in 0..255, with
\* checksum = (243 - instruction - data - address) mod 256, for any integer
\* address and data argument; for set the instruction is 83 and the data relay + 48.
C1_FrameFormat ==
    \A k \in At("write") :
        LET f == log[k][2]
        IN  /\ Len(f) = 5
            /\ f[1] = 13
            /\ \A j \in 1 .. 5 : f[j] \in 0 .. 255
            /\ f[5] = (243 - f[3] - f[4] - f[2]) % 256
            /\ ClientCmd[2] \in {"set", "clear", "toggle", "set_address", "send_byte"}
                   => f[2] = ClientCmd[4] % 256
            /\ ClientCmd[2] = "set" => f[3] = 83 /\ f[4] = ClientCmd[3] + 48

\* C1 witness: set(9, address) with a negative address has written a frame whose
\* checksum wraps around.
C1_Witness ==
    /\ At("write") # {}
    /\ ClientCmd[2] = "set" /\ ClientCmd[3] = 9 /\ ClientCmd[4] < 0
    /\ \E k \in At("write") : 243 - log[k][2][3] - log[k][2][4] - log[k][2][2] < 0

\* C2: set, clear and toggle with a relay outside 1..9 raise the invalid-relay
\* error and write nothing to the transport, whatever the repeat count.
C2_InvalidRelayNoWrite ==
    (/\ log # <<>>
     /\ ClientCmd[2] \in {"set", "clear", "toggle"}
     /\ ClientCmd[3] \notin 1 .. 9)
        => dpc = "raised" /\ At("write") = {} /\ Len(log) = 1

\* C2 witness: toggle(10) was rejected by a driver that repeats.
C2_Witness ==
    /\ dpc = "raised"
    /\ log # <<>>
    /\ ClientCmd[2] = "toggle" /\ ClientCmd[3] = 10
    /\ device.repeat > 0

\* C3: with repeat = k, a command call that was accepted has written exactly
\* k + 1 frames when it returns (and never more on the way), all of them equal.
C3_RepeatWrites ==
    /\ Len(Events("write")) <= device.repeat + 1
    /\ dpc = "returned" => Len(Events("write")) = device.repeat + 1
    /\ \A a, b \in At("write") : log[a] = log[b]

\* C3 witness: send_byte returned from a driver with repeat = 2.
C3_Witness ==
    /\ dpc = "returned"
    /\ ClientCmd[2] = "send_byte"
    /\ device.repeat = 2
    /\ Len(Events("write")) = 3

-----------------------------------------------------------------------------
(* Claims about the controller, checked under Spec *)

\* The four recognized observing modes and the target of each, as the
\* specification states them.
ModeNames == {"object", "dark", "flat", "thar"}

ModeVector(m) ==
    IF m = "object"
    THEN ("Mirror" :> "Off") @@ ("LED" :> "Off") @@ ("ThAr" :> "Off") @@ ("Tung" :> "Off")
    ELSE IF m = "dark"
    THEN ("Mirror" :> "On") @@ ("LED" :> "Off") @@ ("ThAr" :> "Off") @@ ("Tung" :> "Off")
    ELSE IF m = "flat"
    THEN ("Mirror" :> "On") @@ ("LED" :> "On") @@ ("ThAr" :> "Off") @@ ("Tung" :> "Off")
    ELSE ("Mirror" :> "On") @@ ("LED" :> "Off") @@ ("ThAr" :> "On") @@ ("Tung" :> "Off")

\* The ports in the order of the claims, each bound to the relay of its position.
PortOrder == <<"Mirror", "LED", "ThAr", "Tung">>

\* The driver commands one application of mode m is to issue.
ModeCommands(m) ==
    [k \in 1 .. 4 |->
        <<"cmd", IF ModeVector(m)[PortOrder[k]] = "On" THEN "set" ELSE "clear", k, 1>>]

\* The relays among 1..4 that mode m energizes.
ModeRelays(m) == {k \in 1 .. 4 : ModeVector(m)[PortOrder[k]] = "On"}

\* A port status map (the items of a dict) as port name -> "On" / "Off".
PayloadVector(items) ==
    [n \in {items[k][1] : k \in 1 .. Len(items)} |->
        items[CHOOSE k \in 1 .. Len(items) : items[k][1] = n][2].value]

\* The handler is past the loop over the ports.
PastPorts == hpc \in {"emit_status", "emit_changed", "done"}

\* The positions of the log that hold an emit of one event name.
EmitAt(name) == {k \in At("emit") : log[k][2] = name}

\* The positions before k that hold a turn_on or turn_off call.
TurnsBefore(k) == {j \in 1 .. k - 1 : log[j][1] \in {"turn_on", "turn_off"}}

\* C4: with a live driver, one application of a recognized mode issues exactly
\* four driver commands, for relays 1, 2, 3, 4 in this order, set where the
\* mode's target is On and clear where it is Off.
C4_FourCommandsInOrder ==
    (device.open /\ req.mode \in ModeNames) =>
        /\ Len(Events("cmd")) <= 4
        /\ Events("cmd") = SubSeq(ModeCommands(req.mode), 1, Len(Events("cmd")))
        /\ PastPorts => Events("cmd") = ModeCommands(req.mode)

\* C4 witness: set_obs_type("dark") completed on a live driver: one set on
\* relay 1, then clears on 2, 3, 4.
C4_Witness ==
    /\ device.open
    /\ hpc = "done"
    /\ req.kind = "set_obs_type" /\ req.mode = "dark"
    /\ Events("cmd") = << <<"cmd", "set", 1, 1>>, <<"cmd", "clear", 2, 1>>,
                           <<"cmd", "clear", 3, 1>>, <<"cmd", "clear", 4, 1>> >>

\* C5 (as claimed): after a successful application of mode m, status_dictionary
\* is the vector of m.
C5_StatusFollowsMode ==
    hpc = "done" => PayloadVector(status_dictionary) = ModeVector(req.mode)

\* C6: with a live driver, once the port commands of an application are done
\* (and until the next application starts), relays 1..4 are on exactly where the
\* vector of the last applied mode is On, from any initial state of the relays.
C6_RelaysFollowMode ==
    LET m == IF PastPorts THEN req.mode
             ELSE IF hpc \in {"idle", "failed"} THEN applied ELSE ""
    IN  (device.open /\ m \in ModeNames) => card.relays \cap (1 .. 4) = ModeRelays(m)

\* C6 witness: object was applied after flat, and relays 1..4 are all off.
C6_Witness ==
    /\ device.open
    /\ hpc = "done"
    /\ req.mode = "object" /\ applied = "flat"
    /\ card.relays \cap (1 .. 4) = {}

\* C7: in simulation (device is None) nothing is written to the transport, an
\* application of a recognized mode does not fail, and it publishes the vector
\* of the mode with update_status.
C7_SimulationNoWrites ==
    (device = None) =>
        /\ At("write") = {} /\ At("cmd") = {}
        /\ req.mode \in ModeNames => hpc # "failed"
        /\ hpc = "done" =>
              /\ Len(Emits("update_status")) = 1
              /\ PayloadVector(Emits("update_status")[1][3][2]) = ModeVector(req.mode)

\* C7 witness: thar was applied in simulation, after another mode.
C7_Witness ==
    /\ device = None
    /\ hpc = "done"
    /\ req.mode = "thar" /\ applied = "dark"

\* C8: a request with an unrecognized mode fails at once: every step that ends
\* with such a request in hand ends in the failed handler, with nothing written
\* or emitted, and with status_dictionary and the card as they were.
C8_UnknownModeRejected ==
    [][(req' # NoReq /\ req'.mode \notin ModeNames) =>
          /\ hpc' = "failed"
          /\ log' = <<>>
          /\ status_dictionary' = status_dictionary
          /\ card' = card]_vars

\* C8 witness: "unknown" was rejected on a live driver after flat was applied.
C8_Witness ==
    /\ device.open
    /\ hpc = "failed"
    /\ req.mode = "unknown" /\ applied = "flat"
    /\ log = <<>>

\* C9: update_status is emitted at most once per application, only for a
\* recognized mode, after all four port commands (calls, driver commands and
\* writes) and before none, with payload (id, vector of the requested mode);
\* a completed application has emitted it.
C9_StatusEmittedOnce ==
    /\ Cardinality(EmitAt("update_status")) <= 1
    /\ \A k \in EmitAt("update_status") :
          /\ req.mode \in ModeNames
          /\ Cardinality(TurnsBefore(k)) = 4
          /\ device.open =>
                /\ Cardinality({j \in At("cmd") : j < k}) = 4
                /\ Cardinality({j \in At("write") : j < k}) = 4
          /\ \A j \in k + 1 .. Len(log) : log[j][1] = "emit"
          /\ log[k][3][1] = id
          /\ PayloadVector(log[k][3][2]) = ModeVector(req.mode)
    /\ hpc = "done" => Cardinality(EmitAt("update_status")) = 1

\* C9 witness: flat completed on a live driver and published Mirror and LED On.
C9_Witness ==
    /\ device.open
    /\ hpc = "done"
    /\ req.mode = "flat"
    /\ \E k \in EmitAt("update_status") :
          PayloadVector(log[k][3][2]) =
              ("Mirror" :> "On") @@ ("LED" :> "On") @@ ("ThAr" :> "Off") @@ ("Tung" :> "Off")

\* C10: spectrograph_changed_ports is emitted only by prepare_observation with a
\* recognized mode, at most once, with payload obs_instructions, as the last
\* event, after the four port commands and the update_status of the request; a
\* completed prepare_observation has emitted it, and none is emitted for an
\* unrecognized mode.
C10_ChangedPortsLast ==
    /\ Cardinality(EmitAt("spectrograph_changed_ports")) <= 1
    /\ \A k \in EmitAt("spectrograph_changed_ports") :
          /\ req.kind = "prepare_observation"
          /\ req.mode \in ModeNames
          /\ log[k][3] = req.obs
          /\ k = Len(log)
          /\ Cardinality(TurnsBefore(k)) = 4
          /\ \E j \in EmitAt("update_status") : j < k
    /\ (hpc = "done" /\ req.kind = "prepare_observation")
          => Cardinality(EmitAt("spectrograph_changed_ports")) = 1
    /\ req.mode \notin ModeNames => EmitAt("spectrograph_changed_ports") = {}

\* C10 witness: prepare_observation("thar", "obs-B") completed on a live driver.
C10_Witness ==
    /\ device.open
    /\ hpc = "done"
    /\ req = [kind |-> "prepare_observation", mode |-> "thar", obs |-> "obs-B"]
    /\ log[Len(log)] = <<"emit", "spectrograph_changed_ports", "obs-B">>

-----------------------------------------------------------------------------
(* Claims about the commands without an address, checked under SpecAddress *)

\* C11: every frame emergency_stop, force_address and get_address write has
\* address byte 1 and data byte 1, and instruction 69, 70 and 68 respectively,
\* whatever set_address or other calls came before (whatever address and relays
\* the card has by now); a call that returned has written its repeat + 1 frames.
C11_FixedAddressCommands ==
    LET code == ("emergency_stop" :> 69) @@ ("force_address" :> 70) @@ ("get_address" :> 68)
    IN  (log # <<>> /\ ClientCmd[2] \in DOMAIN code) =>
            /\ dpc # "raised"
            /\ \A k \in At("write") :
                  /\ log[k][2][2] = 1
                  /\ log[k][2][3] = code[ClientCmd[2]]
                  /\ log[k][2][4] = 1
            /\ dpc = "returned" => Len(Events("write")) = device.repeat + 1

\* C11 witness: get_address wrote its frame to a card that an earlier
\* set_address had moved away from address 1.
C11_Witness ==
    /\ log # <<>>
    /\ ClientCmd[2] = "get_address"
    /\ card.addr = 5
    /\ \E k \in At("write") : log[k][2] = <<13, 1, 68, 1, 173>>

-----------------------------------------------------------------------------
(* Claims about the transmission loop, checked under FairSpecDriver *)

\* The log of an accepted call is its command, then (write, sleep of wait
\* seconds) pairs, one after the other, as many as the loop has done.
WriteSleepPairs ==
    (log # <<>> /\ dpc # "raised") =>
        /\ \A k \in 2 .. Len(log) :
              IF k % 2 = 0 THEN log[k][1] = "write" ELSE log[k] = <<"sleep", device.wait>>
        /\ dpc = "write" => Len(log) = 1 + 2 * i /\ i < device.repeat + 1
        /\ dpc = "sleep" => Len(log) = 2 + 2 * i /\ i < device.repeat + 1
        /\ dpc = "returned" => Len(log) = 1 + 2 * (device.repeat + 1)

\* C12: a driver call with repeat = k does its transmissions one after the
\* other, each write followed by one sleep of wait seconds before the next write
\* or the return, k + 1 (write, sleep) pairs in all, the last write too; and a
\* call that started transmitting always returns.
C12_SequentialWriteSleep ==
    /\ []WriteSleepPairs
    /\ (dpc \in {"write", "sleep"}) ~> (dpc = "returned")

\* C12 witness: a call returned after three (write, sleep 1) pairs.
C12_Witness ==
    /\ dpc = "returned"
    /\ device.repeat = 2 /\ device.wait = 1
    /\ Len(log) = 7
    /\ log[6][1] = "write" /\ log[7] = <<"sleep", 1>>

-----------------------------------------------------------------------------
(* Claims about concurrent requests, checked under SpecConcurrent *)

\* A handler thread at (h, d) is inside the write / sleep loop of a driver call
\* of its mode application.
Transmitting(h, d) == h = "ports" /\ d \in {"write", "sleep"}

\* C13 (as claimed): at most one command sequence is in flight on the transport
\* at any time, also when two mode-change requests are delivered concurrently.
C13_OneSequenceInFlight ==
    ~(Transmitting(hpc, dpc) /\ Transmitting(other.hpc, other.dpc))

-----------------------------------------------------------------------------
(* Claims about a failing transport, checked under SpecFault *)

\* After a write of a mode application failed: the exception is on its way out
\* of the handler or has left it, the failure is the last event (no command for
\* the remaining ports, no emit), and no update_status was emitted.
FailureStopsApplication ==
    At("fault") # {} =>
        /\ (hpc = "ports" /\ dpc = "raised") \/ hpc = "failed"
        /\ At("fault") = {Len(log)}
        /\ At("emit") = {}
        /\ Cardinality(TurnsBefore(Len(log))) <= 4

\* C14 (as claimed): when a transport write fails during the command for a
\* port, the error reaches the caller of set_obs_type, no command is issued for
\* the remaining ports, no update_status is emitted, and status_dictionary is
\* consistent with what was last published.
C14_WriteFailureConsistent ==
    /\ FailureStopsApplication
    /\ (At("fault") # {} /\ applied \in ModeNames)
          => PayloadVector(status_dictionary) = ModeVector(applied)

-----------------------------------------------------------------------------
(* Claims about the listener, checked under FairSpec *)

\* A mode application has gone through: its four port calls are made (on a live
\* driver as the four driver commands of the mode) and update_status is emitted.
Processed ==
    /\ hpc = "done"
    /\ Cardinality(TurnsBefore(Len(log) + 1)) = 4
    /\ device.open => Events("cmd") = ModeCommands(req.mode)
    /\ Cardinality(EmitAt("update_status")) = 1

\* C15: a handler that failed hands control back to the listener, the listener
\* then takes set_obs_type and prepare_observation events again, and a request
\* with a recognized mode taken after a failure is processed to its four port
\* commands and its update_status.
C15_ListenerSurvives ==
    /\ (hpc = "failed") ~> (hpc = "idle" /\ failures)
    /\ [](hpc = "idle" => ENABLED set_obs_type /\ ENABLED prepare_observation)
    /\ (failures /\ hpc = "ports") ~> (failures /\ Processed)

\* C15 witness: after an earlier request failed, flat was processed on a live
\* driver.
C15_Witness ==
    /\ failures
    /\ device.open
    /\ req.mode = "flat"
    /\ Processed

-----------------------------------------------------------------------------
(* Claims about repeated and interleaved applications, checked under Spec *)

\* The request being handled asks for the mode that the last completed
\* application applied.
Reapplied == hpc # "idle" /\ req.mode \in ModeNames /\ req.mode = applied

\* C16: applying the mode that was applied last issues the same four commands
\* again, with 4 * (repeat + 1) frame writes on a live driver, and leaves
\* relays 1-4 and the published vector as the first application left them.
C16_ReapplyIdempotent ==
    Reapplied =>
        /\ device.open => card.relays \cap (1 .. 4) = ModeRelays(applied)
        /\ status_dictionary = OBSERVING_MODES["object"]
        /\ hpc = "done" =>
              /\ Cardinality(TurnsBefore(Len(log) + 1)) = 4
              /\ device.open => Events("cmd") = ModeCommands(applied)
              /\ device.open => Len(Events("write")) = 4 * (device.repeat + 1)
              /\ Len(Emits("update_status")) = 1
              /\ PayloadVector(Emits("update_status")[1][3][2]) = ModeVector(applied)

\* C16 witness: flat was applied on a live driver right after flat.
C16_Witness ==
    /\ Reapplied
    /\ device.open
    /\ applied = "flat"
    /\ hpc = "done"
    /\ Len(Events("write")) = 4

\* What a read of status_dictionary returns is the vector of one mode, with
\* all four ports.
CompleteVector == \E m \in ModeNames : status_dictionary = OBSERVING_MODES[m]

\* C17: a read of status_dictionary in any state, between the port commands of
\* an application included, returns the complete vector of one mode, and no
\* step changes status_dictionary other than to the whole vector of the
\* requested mode: a reader sees the vector from before the application or the
\* one after it, never entries of two modes.
C17_StatusReadAtomic ==
    /\ []CompleteVector
    /\ [][\/ status_dictionary' = status_dictionary
          \/ /\ req.mode \in ModeNames
             /\ status_dictionary' = OBSERVING_MODES[req.mode]]_vars

\* C17 witness: a read between the second and the third port command of flat,
\* applied on a live driver after thar.
C17_Witness ==
    /\ device.open
    /\ applied = "thar"
    /\ req.mode = "flat"
    /\ hpc = "ports"
    /\ port = 3
    /\ dpc = "idle"
    /\ Len(Events("cmd")) = 2
    /\ CompleteVector

-----------------------------------------------------------------------------
(* Claims about the relay states, checked under SpecOff *)

\* The frames the request being handled has written so far.
Written == {log[k][2] : k \in At("write")}

\* C18: every frame the controller writes has address 1, instruction 83 (set)
\* or 67 (clear) and data 49..52, and none is a set for relay 4 (data 52);
\* with all relays released at the start, relay 4 (Tung) and relays 5-8 are
\* released in every reachable state.
C18_OnlyModeRelays ==
    /\ \A frame \in Written :
          /\ frame[2] = 1
          /\ frame[3] \in {83, 67}
          /\ frame[4] \in 49 .. 52
          /\ ~(frame[3] = 83 /\ frame[4] = 52)
    /\ card.relays \cap (4 .. 8) = {}

\* C18 witness: flat has been applied after thar, its four frames written.
C18_Witness ==
    /\ applied = "thar"
    /\ req.mode = "flat"
    /\ hpc = "done"
    /\ Cardinality(Written) = 4
    /\ card.relays = {1, 2}

\* The card has the LED relay (2) and the ThAr relay (3) energized.
BothLamps == {2, 3} \subseteq card.relays

\* The request being handled has written a frame of this instruction and data.
HasWritten(instruction, data) ==
    \E frame \in Written : frame[3] = instruction /\ frame[4] = data

\* A switch from thar to flat has written its set of the LED relay and not yet
\* its clear of the ThAr relay.
TharToFlatOverlap ==
    /\ hpc = "ports"
    /\ applied = "thar"
    /\ req.mode = "flat"
    /\ HasWritten(83, 50)
    /\ ~HasWritten(67, 51)

\* C19 as stated: with all relays released at the start, the LED relay and the
\* ThAr relay are never energized at the same time, the states between the
\* port commands of a mode switch included.
C19_LampsNeverBoth == ~BothLamps

\* C19 as amended: with all relays released at the start, the LED relay and
\* the ThAr relay are energized at the same time exactly in a switch from thar
\* to flat, from the write of the LED set to the write of the ThAr clear; in
\* every other state, between applications included, at most one is energized.
C19_LampsOverlapOnlyTharToFlat == BothLamps <=> TharToFlatOverlap

\* C19 witness: in a switch from thar to flat the card has Mirror, LED and ThAr
\* energized.
C19_Witness ==
    /\ TharToFlatOverlap
    /\ card.relays = {1, 2, 3}

====
